---- MODULE Spec2Model ----
(***************************************************************************)
(* Model of the text-normalisation and dataset-construction pipeline of    *)
(* notebook/techlabs_nlp_workshop.ipynb: remove_repetitions,               *)
(* tokenize_and_transform, preprocess_movie_data, split_dataset,           *)
(* num_to_one_hot, y_to_one_hot and keras_transform_data.                  *)
(*                                                                         *)
(* A Python str is a sequence of one-character strings; Python's None is   *)
(* an explicit tag on the values that may be None.                         *)
(***************************************************************************)
EXTENDS Integers, Sequences, FiniteSets, TLC

VARIABLES
    s,                  \* remove_repetitions: the argument of the first call
    rr_out,             \* remove_repetitions: results of the successive calls
    movie_data,         \* preprocess_movie_data: argument (list of rows)
    enable_langid,      \* preprocess_movie_data: argument
    row_idx,            \* preprocess_movie_data: rows consumed by the for loop
    preprocessed_data,  \* preprocess_movie_data: the list being built
    pm_pc,              \* preprocess_movie_data: "loop", "returned" or "raised"
    pm_error,           \* preprocess_movie_data: the exception that left it, or "none"
    kept_from,          \* history: kept_from[k] = index of the row record k came from
    tokenized,          \* history: the texts tokenize_and_transform was called with
    sp_x, sp_y,         \* split_dataset: arguments x and y
    random_seed,        \* split_dataset: argument
    split_data,         \* split_dataset: the returned dict
    sp_pc,              \* split_dataset: "call" or "returned"
    data_split,         \* keras_transform_data: the dict, mutated in place
    num_labels,         \* keras_transform_data: local variable (None before line 437)
    kt_pc,              \* keras_transform_data: position in the function body
    kt_error,           \* keras_transform_data: the exception that left it, or "none"
    y_given,            \* history: the label lists keras_transform_data was given
    fd_processed_data,  \* format_dataset: argument processed_data
    fd_vectors,         \* format_dataset: processed_data_vectors['vectors']
    fd_i,               \* format_dataset: iterations of the for loop completed
    fd_x,               \* format_dataset: local x
    fd_x_fulltext,      \* format_dataset: local x_fulltext
    fd_x_vectors,       \* format_dataset: local x_vectors
    fd_y,               \* format_dataset: local y
    fd_pc,              \* format_dataset: "loop", "returned" or "raised"
    fd_error,           \* format_dataset: the exception that left it, or "none"
    cd_pc,              \* create_preprocessed_dataset: "preprocess", "returned", "raised"
    cd_error,           \* create_preprocessed_dataset: the exception that left it
    cd_preprocessed     \* create_preprocessed_dataset: local dict preprocessed_data

rr_vars == <<s, rr_out>>
pm_vars ==
    <<movie_data, enable_langid, row_idx, preprocessed_data, pm_pc, pm_error, kept_from,
      tokenized>>
sp_vars == <<sp_x, sp_y, random_seed, split_data, sp_pc>>
kt_vars == <<data_split, num_labels, kt_pc, kt_error, y_given>>
fd_vars ==
    <<fd_processed_data, fd_vectors, fd_i, fd_x, fd_x_fulltext, fd_x_vectors, fd_y,
      fd_pc, fd_error>>
cd_vars == <<cd_pc, cd_error, cd_preprocessed>>
vars == <<rr_vars, pm_vars, sp_vars, kt_vars, fd_vars, cd_vars>>

----------------------------------------------------------------------------
(* Bounds of the model.                                                    *)

MaxLen == 6       \* longest string given to remove_repetitions
MaxCalls == 2     \* successive applications of remove_repetitions
MaxRows == 2      \* longest movie_data given to preprocess_movie_data
MaxItems == 3     \* longest x and y given to split_dataset
MaxTrain == 2     \* longest y_train given to keras_transform_data
MaxHeldOut == 1   \* longest y_val and y_test given to keras_transform_data
MaxRecords == 2   \* longest PreprocessedDataset given to format_dataset

----------------------------------------------------------------------------
(* Strings.                                                                *)

NL == "\n"
SP == " "

\* The alphabet of the strings given to remove_repetitions on its own.
Chars == {"a", "b", NL}

RECURSIVE StringsOfLen(_)
StringsOfLen(n) ==
    IF n = 0 THEN {<<>>}
    ELSE {Append(t, c) : t \in StringsOfLen(n - 1), c \in Chars}

Strings == UNION {StringsOfLen(n) : n \in 0..MaxLen}

\* str[:k]
Prefix(str, k) == SubSeq(str, 1, k)

----------------------------------------------------------------------------
(* Python's re, for the two patterns of the notebook.  Positions are       *)
(* 1-based: position i is the next character to consume.                   *)

\* '.' without DOTALL: any character except a newline.
Dot(c) == c # NL

\* '.'* over str[i..j]
AllDot(str, i, j) == \A k \in i..j : Dot(str[k])

\* '$' without MULTILINE: at the end of the string, or just before a newline
\* that is the last character of the string.
AtDollar(str, i) ==
    \/ i = Len(str) + 1
    \/ i = Len(str) /\ str[i] = NL

\* '\1' at position i, group 1 being str[1..k]
Backref(str, i, k) ==
    /\ i + k - 1 <= Len(str)
    /\ SubSeq(str, i, i + k - 1) = Prefix(str, k)

\* '\1+?$' at position i
RECURSIVE FastTail(_, _, _)
FastTail(str, i, k) ==
    /\ Backref(str, i, k)
    /\ \/ AtDollar(str, i + k)
       \/ FastTail(str, i + k, k)

\* REPEATER_fast = r"^(.+?).{0,2}\1+?$" with group 1 = str[1..k]
REPEATER_fast(str, k) ==
    /\ k \in 1..Len(str)
    /\ AllDot(str, 1, k)
    /\ \E f \in 0..2 :
        /\ k + f <= Len(str)
        /\ AllDot(str, k + 1, k + f)
        /\ FastTail(str, k + 1 + f, k)

\* '(.{0,2}\1)+?$' at position i
RECURSIVE ExactBlocks(_, _, _)
ExactBlocks(str, i, k) ==
    \E f \in 0..2 :
        /\ i + f - 1 <= Len(str)
        /\ AllDot(str, i, i + f - 1)
        /\ Backref(str, i + f, k)
        /\ \/ AtDollar(str, i + f + k)
           \/ ExactBlocks(str, i + f + k, k)

\* '(\1)+?$' at position i: the blocks without their filler characters.
RECURSIVE BlocksNoFiller(_, _, _)
BlocksNoFiller(str, i, k) ==
    /\ Backref(str, i, k)
    /\ \/ AtDollar(str, i + k)
       \/ BlocksNoFiller(str, i + k, k)

\* The exact pattern written without the filler, r"^(.+?)(\1)+?$".
REPEATER_exact_no_filler(str, k) ==
    /\ k \in 1..Len(str)
    /\ AllDot(str, 1, k)
    /\ BlocksNoFiller(str, k + 1, k)

\* REPEATER_exact = r"^(.+?)(.{0,2}\1)+?$" with group 1 = str[1..k]
REPEATER_exact(str, k) ==
    /\ k \in 1..Len(str)
    /\ AllDot(str, 1, k)
    /\ ExactBlocks(str, k + 1, k)

\* re.search(REPEATER_fast, s): a match or None (only its truth is used).
match_fast(str) == \E k \in 1..Len(str) : REPEATER_fast(str, k)

\* The lengths group 1 can take in a match of REPEATER_exact.
ExactGroupLens(str) == {k \in 1..Len(str) : REPEATER_exact(str, k)}

\* The pattern with a greedy group 1, r"^(.+)(.{0,2}\1)+?$": the longest first.
match_exact_greedy(str) ==
    LET ks == ExactGroupLens(str)
    IN  IF ks = {} THEN <<>>
        ELSE <<Prefix(str, CHOOSE k \in ks : \A j \in ks : j <= k)>>

\* re.search(REPEATER_exact, s): <<>> for None, else <<group(1)>>.  Group 1 is
\* lazy, so the backtracking search tries its lengths shortest first and the
\* first match found has the shortest group 1 for which the rest matches.
match_exact(str) ==
    LET ks == ExactGroupLens(str)
    IN  IF ks = {} THEN <<>>
        ELSE <<Prefix(str, CHOOSE k \in ks : \A j \in ks : k <= j)>>

\* remove_repetitions without the gate: the exact pattern run unconditionally
\* and its group returned whenever it matches.
remove_repetitions_ungated(str) ==
    IF match_exact(str) # <<>>
    THEN [raised |-> "none", value |-> match_exact(str)[1]]
    ELSE [raised |-> "none", value |-> str]

\* remove_repetitions(s).  match_exact.group(1) on None raises AttributeError.
remove_repetitions(str) ==
    IF match_fast(str)
    THEN IF match_exact(str) = <<>>
         THEN [raised |-> "AttributeError", value |-> <<>>]
         ELSE [raised |-> "none", value |-> match_exact(str)[1]]
    ELSE [raised |-> "none", value |-> str]

----------------------------------------------------------------------------
(* Python's None, and a value that is not None.                            *)

None == [none |-> TRUE, val |-> <<>>]
Some(v) == [none |-> FALSE, val |-> v]

\* The keys of the dict split_dataset returns and keras_transform_data takes.
Keys == {"x_train", "x_val", "x_test", "y_train", "y_val", "y_test"}

\* The dict before it is built: every key absent (here: None).
NoDict == [key \in Keys |-> None]

----------------------------------------------------------------------------
(* Each component's variables while another component is exercised.        *)

rr_idle == s = <<>> /\ rr_out = <<>>

pm_idle ==
    /\ movie_data = <<>>
    /\ enable_langid = FALSE
    /\ row_idx = 0
    /\ preprocessed_data = <<>>
    /\ pm_pc = "idle"
    /\ pm_error = "none"
    /\ kept_from = <<>>
    /\ tokenized = <<>>

sp_idle ==
    /\ sp_x = <<>>
    /\ sp_y = <<>>
    /\ random_seed = 42
    /\ split_data = NoDict
    /\ sp_pc = "idle"

kt_idle ==
    /\ data_split = NoDict
    /\ num_labels = None
    /\ kt_pc = "idle"
    /\ kt_error = "none"
    /\ y_given = NoDict

fd_idle ==
    /\ fd_processed_data = <<>>
    /\ fd_vectors = <<>>
    /\ fd_i = 0
    /\ fd_x = <<>>
    /\ fd_x_fulltext = <<>>
    /\ fd_x_vectors = <<>>
    /\ fd_y = <<>>
    /\ fd_pc = "idle"
    /\ fd_error = "none"

cd_idle ==
    /\ cd_pc = "idle"
    /\ cd_error = "none"
    /\ cd_preprocessed = <<>>

----------------------------------------------------------------------------
(* remove_repetitions applied to a string, and again to its own result.    *)

InitRep ==
    /\ s \in Strings
    /\ rr_out = <<>>
    /\ pm_idle /\ sp_idle /\ kt_idle /\ fd_idle /\ cd_idle

\* One call of remove_repetitions: on s first, then on the previous result.
RemoveRepetitions ==
    /\ Len(rr_out) < MaxCalls
    /\ rr_out # <<>> => rr_out[Len(rr_out)].raised = "none"
    /\ LET arg == IF rr_out = <<>> THEN s ELSE rr_out[Len(rr_out)].value
       IN  rr_out' = Append(rr_out, remove_repetitions(arg))
    /\ UNCHANGED <<s, pm_vars, sp_vars, kt_vars, fd_vars, cd_vars>>

NextRep == RemoveRepetitions

SpecRep == InitRep /\ [][NextRep]_vars

----------------------------------------------------------------------------
(* The pieces of preprocess_movie_data.                                    *)

\* row[0] in [' ', ''] (and the same test on row[1], row[2])
InBlankList(field) == field \in {<<SP>>, <<>>}

\* ' '.join(fields)
RECURSIVE Join(_)
Join(fields) ==
    IF fields = <<>> THEN <<>>
    ELSE IF Len(fields) = 1 THEN fields[1]
    ELSE fields[1] \o <<SP>> \o Join(Tail(fields))

\* str.replace("\n", " ")
ReplaceNewlines(str) == [i \in 1..Len(str) |-> IF str[i] = NL THEN SP ELSE str[i]]

Digits == <<"0", "1", "2", "3", "4", "5", "6", "7", "8", "9">>
DigitSet == {Digits[i] : i \in 1..10}
DigitVal(c) == (CHOOSE i \in 1..10 : Digits[i] = c) - 1
Whitespace == {SP, NL, "\t"}

\* str.strip(), as int() applies it to its argument
RECURSIVE Strip(_)
Strip(str) ==
    IF str = <<>> THEN <<>>
    ELSE IF str[1] \in Whitespace THEN Strip(Tail(str))
    ELSE IF str[Len(str)] \in Whitespace THEN Strip(SubSeq(str, 1, Len(str) - 1))
    ELSE str

\* The digits of an integer literal: digits, single underscores between them.
IsIntBody(b) ==
    /\ b # <<>>
    /\ \A i \in 1..Len(b) : b[i] \in DigitSet \cup {"_"}
    /\ b[1] # "_" /\ b[Len(b)] # "_"
    /\ \A i \in 1..(Len(b) - 1) : ~(b[i] = "_" /\ b[i + 1] = "_")

RECURSIVE BodyValue(_, _)
BodyValue(b, acc) ==
    IF b = <<>> THEN acc
    ELSE IF b[1] = "_" THEN BodyValue(Tail(b), acc)
    ELSE BodyValue(Tail(b), 10 * acc + DigitVal(b[1]))

\* int(str): [raised |-> "ValueError"] when str is no integer literal.
int(str) ==
    LET t == Strip(str)
        signed == t # <<>> /\ t[1] \in {"+", "-"}
        body == IF signed THEN Tail(t) ELSE t
    IN  IF IsIntBody(body)
        THEN [raised |-> "none",
              value |-> IF signed /\ t[1] = "-"
                        THEN 0 - BodyValue(body, 0) ELSE BodyValue(body, 0)]
        ELSE [raised |-> "ValueError", value |-> 0]

\* tokenize_and_transform: transformed_text = [] is returned as it is; the
\* loop over the tokens is left as TODO comments, and spacy_model.pipe only
\* builds a generator that is never consumed.
tokenize_and_transform(text, stemming, lemmatization, stopword_removal, punctuation_removal) ==
    LET transformed_text == <<>>
    IN  transformed_text

\* Lines 256-257 with row[2] kept instead of the join of row[2:].
CoalesceFirstOnly(row) == <<row[1], row[2], row[3]>>

\* Lines 256-257: if len(row) > 3: row = [row[0], row[1], ' '.join(row[2:])]
Coalesce(row) ==
    IF Len(row) > 3
    THEN <<row[1], row[2], Join(SubSeq(row, 3, Len(row)))>>
    ELSE row

\* Line 264 with the two steps swapped.
MovieReviewReplaceFirst(text) ==
    LET r == remove_repetitions(ReplaceNewlines(text))
    IN  [raised |-> r.raised, value |-> r.value]

\* Line 264: movie_review = remove_repetitions(row[2]).replace("\n", " ")
MovieReview(text) ==
    LET r == remove_repetitions(text)
    IN  [raised |-> r.raised,
         value |-> IF r.raised = "none" THEN ReplaceNewlines(r.value) ELSE <<>>]

\* Lines 265-269
Tokens(movie_review) == tokenize_and_transform(movie_review, TRUE, TRUE, TRUE, TRUE)

\* langid_model.classify(text)[0]: the language the external identifier may
\* predict for a text.
Languages == {"de", "en"}

----------------------------------------------------------------------------
(* The strings and rows preprocess_movie_data is given.                    *)

\* "http://a"
HttpA ==
    <<"h", "t", "t", "p", ":", "/", "/", "a">>

\* "http://b"
HttpB ==
    <<"h", "t", "t", "p", ":", "/", "/", "b">>

\* "Das war super super toll"
DasWar ==
    <<"D", "a", "s", " ", "w", "a", "r", " ", "s", "u", "p", "e", "r", " ",
    "s", "u", "p", "e", "r", " ", "t", "o", "l", "l">>

\* "bad"
Bad ==
    <<"b", "a", "d">>

\* "x"
X ==
    <<"x">>

\* "u"
U ==
    <<"u">>

\* "text"
Text ==
    <<"t", "e", "x", "t">>

\* "part1"
Part1 ==
    <<"p", "a", "r", "t", "1">>

\* "part2"
Part2 ==
    <<"p", "a", "r", "t", "2">>

\* "part1 part2"
Part1Part2 ==
    <<"p", "a", "r", "t", "1", " ", "p", "a", "r", "t", "2">>

\* "hahaha"
Hahaha ==
    <<"h", "a", "h", "a", "h", "a">>

\* "ha"
Ha ==
    <<"h", "a">>

\* "ha\nha"
HaNlHa ==
    <<"h", "a", "\n", "h", "a">>

\* "5"
Five ==
    <<"5">>

\* "3"
Three ==
    <<"3">>

\* " 4"
PaddedFour ==
    <<" ", "4">>

\* "  "
TwoSpaces ==
    <<" ", " ">>

\* The rows of the end-to-end scenario.
EndToEndRows == <<<<HttpA, Five, DasWar>>, <<HttpB, <<>>, Bad>>, <<X>>>>

\* The rows movie_data is drawn from: csv.reader yields a list of str per
\* line, of any length, the empty list for an empty line.
RowPool ==
    {EndToEndRows[1], EndToEndRows[2], EndToEndRows[3],
     <<>>,                              \* an empty line
     <<U, Five>>,                       \* two fields
     <<<<>>, Three, Text>>,             \* empty url
     <<U, <<SP>>, Text>>,               \* stars a single space
     <<U, Five, TwoSpaces>>,            \* text of two spaces
     <<U, X, Text>>,                    \* stars no integer literal
     <<U, PaddedFour, Hahaha>>,         \* stars with a leading space, repetitive text
     <<U, Three, HaNlHa>>,              \* a quoted field holding a newline
     <<U, Five, Part1, Part2>>,         \* a delimiter inside the text
     <<U, Five, <<>>, Part2>>,          \* four fields, the third empty
     <<U, Three, Ha, Ha, Ha>>}          \* five fields

RECURSIVE RowLists(_)
RowLists(n) ==
    IF n = 0 THEN {<<>>}
    ELSE {Append(l, r) : l \in RowLists(n - 1), r \in RowPool}

----------------------------------------------------------------------------
(* preprocess_movie_data(movie_data, enable_langid): one step per          *)
(* iteration of its for loop, then the return.                             *)

InitPre ==
    /\ movie_data \in UNION {RowLists(n) : n \in 0..MaxRows} \cup {EndToEndRows}
    /\ enable_langid \in BOOLEAN
    /\ row_idx = 0
    /\ preprocessed_data = <<>>
    /\ pm_pc = "loop"
    /\ pm_error = "none"
    /\ kept_from = <<>>
    /\ tokenized = <<>>
    /\ rr_idle /\ sp_idle /\ kt_idle /\ fd_idle /\ cd_idle

\* The row the iteration is about.
NextRow == movie_data[row_idx + 1]

InLoop == pm_pc = "loop" /\ row_idx < Len(movie_data)

\* Lines 252-255: the two tests that end the iteration with continue.
TooShort(row) == Len(row) < 3
HasBlankField(row) == InBlankList(row[1]) \/ InBlankList(row[2]) \/ InBlankList(row[3])

Continue ==
    /\ row_idx' = row_idx + 1
    /\ UNCHANGED <<movie_data, enable_langid, preprocessed_data, pm_pc, pm_error,
                   kept_from, tokenized, rr_vars, sp_vars, kt_vars, fd_vars, cd_vars>>

\* Lines 252-253
SkipShortRow ==
    /\ InLoop
    /\ TooShort(NextRow)
    /\ Continue

\* Lines 254-255
SkipBlankRow ==
    /\ InLoop
    /\ ~TooShort(NextRow)
    /\ HasBlankField(NextRow)
    /\ Continue

\* Lines 259-262: the identifier predicts a language other than 'de'.
SkipForeignRow ==
    /\ InLoop
    /\ ~TooShort(NextRow)
    /\ ~HasBlankField(NextRow)
    /\ enable_langid
    /\ \E lang \in Languages : lang # "de"
    /\ Continue

\* Lines 256-270 for a row that passed the filters: the record is appended,
\* or remove_repetitions or int raises and the function is left.
KeepRow ==
    /\ InLoop
    /\ ~TooShort(NextRow)
    /\ ~HasBlankField(NextRow)
    /\ enable_langid => \E lang \in Languages : lang = "de"
    /\ LET row == Coalesce(NextRow)
           movie_review == MovieReview(row[3])
           tokens == Tokens(movie_review.value)
           stars == int(row[2])
       IN  IF movie_review.raised # "none"
           THEN /\ pm_pc' = "raised"
                /\ pm_error' = movie_review.raised
                /\ UNCHANGED <<preprocessed_data, kept_from, tokenized, row_idx>>
           ELSE IF stars.raised # "none"
           THEN /\ pm_pc' = "raised"
                /\ pm_error' = stars.raised
                /\ tokenized' = Append(tokenized, movie_review.value)
                /\ UNCHANGED <<preprocessed_data, kept_from, row_idx>>
           ELSE /\ preprocessed_data' =
                       Append(preprocessed_data,
                              <<row[1], stars.value, movie_review.value, tokens>>)
                /\ kept_from' = Append(kept_from, row_idx + 1)
                /\ tokenized' = Append(tokenized, movie_review.value)
                /\ row_idx' = row_idx + 1
                /\ UNCHANGED <<pm_pc, pm_error>>
    /\ UNCHANGED <<movie_data, enable_langid, rr_vars, sp_vars, kt_vars, fd_vars, cd_vars>>

\* Line 271
ReturnPreprocessed ==
    /\ pm_pc = "loop"
    /\ row_idx = Len(movie_data)
    /\ pm_pc' = "returned"
    /\ UNCHANGED <<movie_data, enable_langid, row_idx, preprocessed_data, pm_error,
                   kept_from, tokenized, rr_vars, sp_vars, kt_vars, fd_vars, cd_vars>>

NextPre ==
    \/ SkipShortRow
    \/ SkipBlankRow
    \/ SkipForeignRow
    \/ KeepRow
    \/ ReturnPreprocessed

SpecPre == InitPre /\ [][NextPre]_vars

----------------------------------------------------------------------------
(* Properties of remove_repetitions, checked under SpecRep.                *)

\* The result of the first call, on s.
FirstResult == rr_out[1]

\* str is, from position i on, one or more blocks, each of 0 to 2 characters
\* of any kind followed by str[1..k], and nothing else.
RECURSIVE IsBlocks(_, _, _)
IsBlocks(str, i, k) ==
    \E f \in 0..2 :
        /\ i + f + k - 1 <= Len(str)
        /\ SubSeq(str, i + f, i + f + k - 1) = SubSeq(str, 1, k)
        /\ \/ i + f + k = Len(str) + 1
           \/ IsBlocks(str, i + f + k, k)

\* The lengths k for which str is str[1..k] followed by such blocks.
RepeatedPrefixLens(str) == {k \in 1..Len(str) : IsBlocks(str, k + 1, k)}

ShortestRepeatedPrefix(str) ==
    SubSeq(str, 1, CHOOSE k \in RepeatedPrefixLens(str) :
                       \A j \in RepeatedPrefixLens(str) : k <= j)

\* str without its last character when that is a newline.
WithoutFinalNewline(str) ==
    IF str # <<>> /\ str[Len(str)] = NL THEN SubSeq(str, 1, Len(str) - 1) ELSE str

\* C3: remove_repetitions is idempotent: applied to its own result it returns
\* that result again, for every string s.
C3_Idempotent ==
    \A j \in 2..Len(rr_out) : rr_out[j] = FirstResult

\* C3 witness: a string that the first call shortened has been put through a
\* second call.
C3_Witness ==
    /\ Len(rr_out) >= 2
    /\ s = <<"a", "b", "a", "b", "a", "b">>
    /\ FirstResult.value = <<"a", "b">>
    /\ rr_out[2].value = <<"a", "b">>

\* C4 as stated: s is returned unchanged when the cheap check finds nothing,
\* and otherwise the result is the shortest non-empty prefix p of s such that
\* s is p followed by one or more blocks of 0 to 2 filler characters and p.
C4_ShortestPrefixOfWholeString ==
    rr_out # <<>> =>
        /\ FirstResult.raised = "none"
        /\ IF ~match_fast(s)
           THEN FirstResult.value = s
           ELSE /\ RepeatedPrefixLens(s) # {}
                /\ FirstResult.value = ShortestRepeatedPrefix(s)

\* C4 amended: s is returned unchanged when the cheap check finds nothing, and
\* otherwise the result is the shortest non-empty prefix p such that s, without
\* its final character when that is a newline, is p followed by one or more
\* blocks of 0 to 2 filler characters and p.
C4_ShortestPrefixUpToFinalNewline ==
    rr_out # <<>> =>
        /\ FirstResult.raised = "none"
        /\ IF ~match_fast(s)
           THEN FirstResult.value = s
           ELSE /\ RepeatedPrefixLens(WithoutFinalNewline(s)) # {}
                /\ FirstResult.value = ShortestRepeatedPrefix(WithoutFinalNewline(s))

\* C4 witness: a repetition with a filler, ending in a newline, was collapsed.
C4_Witness ==
    /\ rr_out # <<>>
    /\ s = <<"a", "b", "a", NL>>
    /\ FirstResult.value = <<"a">>

\* C14: remove_repetitions never fails: whenever REPEATER_fast matches the
\* argument of a call, REPEATER_exact matches it too, so the call returns the
\* group that match captured and raises nothing.
C14_FastImpliesExact ==
    \A j \in 1..Len(rr_out) :
        LET arg == IF j = 1 THEN s ELSE rr_out[j - 1].value
        IN  /\ rr_out[j].raised = "none"
            /\ match_fast(arg) =>
                  /\ match_exact(arg) # <<>>
                  /\ rr_out[j].value = match_exact(arg)[1]

\* C14 witness: the cheap pattern matched "aaba" through a two-character
\* filler and the call returned the group of the exact match, "a".
C14_Witness ==
    /\ rr_out # <<>>
    /\ s = <<"a", "a", "b", "a">>
    /\ match_fast(s)
    /\ FirstResult = [raised |-> "none", value |-> <<"a">>]

----------------------------------------------------------------------------
(* Properties of preprocess_movie_data, checked under SpecPre.             *)

\* The rows the loop has consumed so far.
Consumed == 1..row_idx

\* The records that row i contributed.
RecordsOf(i) == {k \in 1..Len(kept_from) : kept_from[k] = i}

\* A field that is empty or holds nothing but whitespace.
IsBlankField(field) == \A i \in 1..Len(field) : field[i] \in Whitespace

\* The fields of row from index j (1-based) on, joined with single spaces in
\* their order.
RECURSIVE SpaceJoinedFrom(_, _)
SpaceJoinedFrom(row, j) ==
    IF j >= Len(row) THEN row[j]
    ELSE row[j] \o <<SP>> \o SpaceJoinedFrom(row, j + 1)

\* C1: no row with fewer than 3 fields, or whose first, second or third field
\* is blank or whitespace-only, contributes a record to the output.
C1_BlankRowsExcluded ==
    \A k \in 1..Len(kept_from) :
        LET row == movie_data[kept_from[k]]
        IN  /\ Len(row) >= 3
            /\ \A j \in 1..3 : ~IsBlankField(row[j])

CoalescedText(row) == SpaceJoinedFrom(row, 3)

HasNewline(str) == \E i \in 1..Len(str) : str[i] = NL

\* C13: the text of every emitted record is the coalesced row text after
\* repetition collapsing and then newline normalisation, in that order; it
\* holds no newline, and it is the text tokenize_and_transform was given.
C13_CollapseThenNormalise ==
    /\ \A k \in 1..Len(preprocessed_data) :
        LET text == preprocessed_data[k][3]
            collapsed == remove_repetitions(CoalescedText(movie_data[kept_from[k]]))
        IN  /\ collapsed.raised = "none"
            /\ text = [i \in 1..Len(collapsed.value) |->
                          IF collapsed.value[i] = NL THEN SP ELSE collapsed.value[i]]
            /\ ~HasNewline(text)
            /\ k <= Len(tokenized)
            /\ tokenized[k] = text
    /\ pm_pc # "raised" => Len(tokenized) = Len(preprocessed_data)

\* C13 witness: the text "ha\nha", which the newline keeps from collapsing,
\* was emitted and tokenized as "ha ha".
C13_Witness ==
    /\ pm_pc = "returned"
    /\ \E k \in 1..Len(preprocessed_data) :
        /\ movie_data[kept_from[k]][3] = HaNlHa
        /\ preprocessed_data[k][3] = <<"h", "a", SP, "h", "a">>
        /\ tokenized[k] = <<"h", "a", SP, "h", "a">>

\* C8: for the rows of the end-to-end scenario exactly one record is returned,
\* that of row 1, carrying the repetition-collapsed text and a non-empty token
\* sequence.
C8_EndToEnd ==
    (movie_data = EndToEndRows /\ ~enable_langid /\ pm_pc = "returned") =>
        /\ Len(preprocessed_data) = 1
        /\ kept_from = <<1>>
        /\ preprocessed_data[1][1] = HttpA
        /\ preprocessed_data[1][2] = 5
        /\ preprocessed_data[1][3] = DasWar
        /\ preprocessed_data[1][4] # <<>>

\* C10: a record-level validation failure is never fatal: the function is
\* never left by an exception, whatever the rows.
C10_ValidationNeverFatal == pm_pc # "raised"

----------------------------------------------------------------------------
(* split_dataset(x, y, random_seed).                                       *)

Features == {"f1", "f2"}
StarLabels == 0..2

RECURSIVE SeqsOfLen(_, _)
SeqsOfLen(S, n) ==
    IF n = 0 THEN {<<>>}
    ELSE {Append(q, e) : q \in SeqsOfLen(S, n - 1), e \in S}

SeqsUpTo(S, n) == UNION {SeqsOfLen(S, m) : m \in 0..n}

InitSplit ==
    /\ \E n \in 0..MaxItems :
        /\ sp_x \in SeqsOfLen(Features, n)
        /\ sp_y \in SeqsOfLen(StarLabels, n)
    /\ random_seed \in {42, 7}
    /\ split_data = NoDict
    /\ sp_pc = "call"
    /\ rr_idle /\ pm_idle /\ kt_idle /\ fd_idle /\ cd_idle

\* Lines 382-399: both train_test_split calls are left as TODO comments, every
\* partition is bound to None, and the dict of the six Nones is returned,
\* whatever x, y and random_seed are.
split_dataset(x, y, seed) ==
    LET x_train == None
        x_val_test == None
        y_train == None
        y_val_test == None
        x_val == None
        x_test == None
        y_val == None
        y_test == None
    IN  [x_train |-> x_train, x_val |-> x_val, x_test |-> x_test,
         y_train |-> y_train, y_val |-> y_val, y_test |-> y_test]

SplitDataset ==
    /\ sp_pc = "call"
    /\ split_data' = split_dataset(sp_x, sp_y, random_seed)
    /\ sp_pc' = "returned"
    /\ UNCHANGED <<sp_x, sp_y, random_seed, rr_vars, pm_vars, kt_vars, fd_vars, cd_vars>>

NextSplit == SplitDataset

SpecSplit == InitSplit /\ [][NextSplit]_vars

----------------------------------------------------------------------------
(* num_to_one_hot, y_to_one_hot and keras_transform_data.                  *)

\* np.max over a non-empty list of ints
SeqMax(q) == CHOOSE m \in {q[i] : i \in 1..Len(q)} : \A i \in 1..Len(q) : q[i] <= m

\* [0]*length
Zeros(length) == [i \in 1..(IF length > 0 THEN length ELSE 0) |-> 0]

\* num_to_one_hot with the label clamped into the vector.
num_to_one_hot_clamped(num, length) ==
    LET one_hot == Zeros(length)
        at == IF num >= length THEN length - 1 ELSE IF num < 0 THEN 0 ELSE num
    IN  IF Len(one_hot) = 0
        THEN [raised |-> "IndexError", value |-> <<>>]
        ELSE [raised |-> "none", value |-> [one_hot EXCEPT ![at + 1] = 1]]

\* num_to_one_hot counting positions from 1: one_hot[num - 1] = 1.
num_to_one_hot_shifted(num, length) ==
    LET one_hot == Zeros(length)
        at == num - 1
    IN  IF 0 <= at /\ at < Len(one_hot)
        THEN [raised |-> "none", value |-> [one_hot EXCEPT ![at + 1] = 1]]
        ELSE IF 0 - Len(one_hot) <= at /\ at < 0
        THEN [raised |-> "none", value |-> [one_hot EXCEPT ![Len(one_hot) + at + 1] = 1]]
        ELSE [raised |-> "IndexError", value |-> <<>>]

\* Lines 427-430.  one_hot[num] = 1 on a Python list: index num for
\* 0 <= num < len, index len + num for -len <= num < 0, IndexError otherwise.
num_to_one_hot(num, length) ==
    LET one_hot == Zeros(length)
    IN  IF 0 <= num /\ num < Len(one_hot)
        THEN [raised |-> "none", value |-> [one_hot EXCEPT ![num + 1] = 1]]
        ELSE IF 0 - Len(one_hot) <= num /\ num < 0
        THEN [raised |-> "none", value |-> [one_hot EXCEPT ![Len(one_hot) + num + 1] = 1]]
        ELSE [raised |-> "IndexError", value |-> <<>>]

\* Lines 432-433, every e of y being an int: the first exception of
\* num_to_one_hot leaves the comprehension, else the array of the vectors.
y_to_one_hot(y, length) ==
    IF \E i \in 1..Len(y) : num_to_one_hot(y[i], length).raised # "none"
    THEN [raised |-> "IndexError", value |-> <<>>]
    ELSE [raised |-> "none",
          value |-> [i \in 1..Len(y) |-> num_to_one_hot(y[i], length).value]]

\* An element of an x partition: a list, or already an np.ndarray.
XElem(is_ndarray) == [ndarray |-> is_ndarray, v |-> "vec"]

\* np.array([np.array(e) if not isinstance(e, np.ndarray) else e for e in xs])
ToArrays(xs) == [i \in 1..Len(xs) |-> [xs[i] EXCEPT !.ndarray = TRUE]]

Labels == {-1, 0, 1, 2}

\* A dict of six lists: the x partitions as long as their y partitions.
DictOf(tr, va, te, is_ndarray) ==
    [x_train |-> Some([i \in 1..Len(tr) |-> XElem(is_ndarray)]),
     x_val |-> Some([i \in 1..Len(va) |-> XElem(is_ndarray)]),
     x_test |-> Some([i \in 1..Len(te) |-> XElem(is_ndarray)]),
     y_train |-> Some(tr), y_val |-> Some(va), y_test |-> Some(te)]

\* Training labels 0..5, for a width of 6.
SixLabels == <<0, 1, 2, 3, 4, 5>>

InitKeras ==
    /\ \/ \E tr \in SeqsUpTo(Labels, MaxTrain), va, te \in SeqsUpTo(Labels, MaxHeldOut),
             is_ndarray \in BOOLEAN :
               data_split = DictOf(tr, va, te, is_ndarray)
       \/ data_split = DictOf(SixLabels, <<2>>, <<5>>, FALSE)
       \/ data_split = DictOf(SixLabels, <<2>>, <<7>>, FALSE)
       \/ data_split = split_dataset(<<>>, <<>>, 42)
    /\ y_given = data_split
    /\ num_labels = None
    /\ kt_pc = "num_labels"
    /\ kt_error = "none"
    /\ rr_idle /\ pm_idle /\ sp_idle /\ fd_idle /\ cd_idle

KtRunning(at) == kt_pc = at /\ kt_error = "none"

\* Line 437: num_labels = np.max(data_split['y_train']) + 1
KtNumLabels ==
    /\ KtRunning("num_labels")
    /\ IF data_split.y_train.none
       THEN kt_error' = "TypeError" /\ UNCHANGED <<num_labels, kt_pc>>
       ELSE IF data_split.y_train.val = <<>>
       THEN kt_error' = "ValueError" /\ UNCHANGED <<num_labels, kt_pc>>
       ELSE /\ num_labels' = Some(SeqMax(data_split.y_train.val) + 1)
            /\ kt_pc' = "train"
            /\ UNCHANGED kt_error
    /\ UNCHANGED <<data_split, y_given, rr_vars, pm_vars, sp_vars, fd_vars, cd_vars>>

\* Two lines of the body: data_split[xk] = np.array([...]) and then
\* data_split[yk] = y_to_one_hot(data_split[yk], num_labels).
EncodePartition(at, xk, yk, then) ==
    /\ KtRunning(at)
    /\ LET withX == [data_split EXCEPT ![xk] = Some(ToArrays(data_split[xk].val))]
           hot == y_to_one_hot(data_split[yk].val, num_labels.val)
       IN  IF hot.raised # "none"
           THEN /\ data_split' = withX
                /\ kt_error' = hot.raised
                /\ UNCHANGED kt_pc
           ELSE /\ data_split' = [withX EXCEPT ![yk] = Some(hot.value)]
                /\ kt_pc' = then
                /\ UNCHANGED kt_error
    /\ UNCHANGED <<num_labels, y_given, rr_vars, pm_vars, sp_vars, fd_vars, cd_vars>>

\* Lines 439-440
KtTrain == EncodePartition("train", "x_train", "y_train", "val")

\* Lines 442-443
KtVal == EncodePartition("val", "x_val", "y_val", "test")

\* Lines 445-446
KtTest == EncodePartition("test", "x_test", "y_test", "return")

\* Line 448
KtReturn ==
    /\ KtRunning("return")
    /\ kt_pc' = "returned"
    /\ UNCHANGED <<data_split, num_labels, kt_error, y_given, rr_vars, pm_vars, sp_vars, fd_vars, cd_vars>>

NextKeras ==
    \/ KtNumLabels
    \/ KtTrain
    \/ KtVal
    \/ KtTest
    \/ KtReturn

SpecKeras == InitKeras /\ [][NextKeras]_vars

----------------------------------------------------------------------------
(* Properties of split_dataset, checked under SpecSplit.                   *)

\* The entries of q at the indices idx, in the order of idx.
Pick(q, idx) == [j \in 1..Len(idx) |-> q[idx[j]]]

\* The orderings of the index range 1..n.
IndexOrders(n) == {o \in [1..n -> 1..n] : \A i, j \in 1..n : o[i] = o[j] => i = j}

\* d holds three partitions of x and y: for some ordering of the indices cut
\* into three runs, the train, validation and test lists are x and y at the
\* indices of the first, second and third run.
IsThreeWaySplit(d, x, y) ==
    /\ \A key \in Keys : ~d[key].none
    /\ Len(d.x_train.val) + Len(d.x_val.val) + Len(d.x_test.val) = Len(x)
    /\ \E o \in IndexOrders(Len(x)) :
        \E a \in 0..Len(x) :
            \E b \in a..Len(x) :
                /\ d.x_train.val = Pick(x, SubSeq(o, 1, a))
                /\ d.y_train.val = Pick(y, SubSeq(o, 1, a))
                /\ d.x_val.val = Pick(x, SubSeq(o, a + 1, b))
                /\ d.y_val.val = Pick(y, SubSeq(o, a + 1, b))
                /\ d.x_test.val = Pick(x, SubSeq(o, b + 1, Len(x)))
                /\ d.y_test.val = Pick(y, SubSeq(o, b + 1, Len(x)))

\* C5: the partitions split_dataset returns have lengths summing to N and
\* index sets that are pairwise disjoint and cover the whole index range,
\* the features and labels of each partition aligned (stated for the inputs
\* long enough to have three non-empty partitions, N >= 3).
C5_SplitIsPartition ==
    (sp_pc = "returned" /\ Len(sp_x) >= 3) => IsThreeWaySplit(split_data, sp_x, sp_y)

\* C9: split_dataset never returns for an input shorter than 3: it fails with
\* an input-size error.
C9_SmallInputRejected ==
    Len(sp_x) < 3 => sp_pc # "returned"

----------------------------------------------------------------------------
(* Properties of the label encoder, checked under SpecKeras.               *)

\* The positions of keras_transform_data at which a partition's labels have
\* been replaced by their one-hot vectors.
DonePositions(yk) ==
    CASE yk = "y_train" -> {"val", "test", "return", "returned"}
      [] yk = "y_val" -> {"test", "return", "returned"}
      [] yk = "y_test" -> {"return", "returned"}

IsEncoded(yk) == kt_pc \in DonePositions(yk)

\* The width the labels given as the training partition call for.
TrainWidth == 1 + SeqMax(y_given.y_train.val)

\* vec has exactly one entry equal to 1, at 0-based position l, and the rest 0.
IsOneHotAt(vec, l) ==
    /\ l + 1 \in 1..Len(vec)
    /\ \A i \in 1..Len(vec) : vec[i] = (IF i = l + 1 THEN 1 ELSE 0)
    /\ Cardinality({i \in 1..Len(vec) : vec[i] = 1}) = 1

\* C6: the width is 1 + max(training label), fixed before any partition is
\* encoded and the same for the three partitions; a label l with
\* 0 <= l < width becomes a vector of width entries with its single 1 at l.
C6_OneHotWidthAndPosition ==
    /\ (kt_pc # "num_labels") => num_labels = Some(TrainWidth)
    /\ \A yk \in {"y_train", "y_val", "y_test"} :
        IsEncoded(yk) =>
            /\ Len(data_split[yk].val) = Len(y_given[yk].val)
            /\ \A i \in 1..Len(y_given[yk].val) :
                LET l == y_given[yk].val[i]
                    vec == data_split[yk].val[i]
                IN  /\ Len(vec) = TrainWidth
                    /\ (0 <= l /\ l < TrainWidth) => IsOneHotAt(vec, l)

\* C6 witness: training labels [0,1,2,3,4,5] gave width 6 and the validation
\* label 2 became [0,0,1,0,0,0].
C6_Witness ==
    /\ kt_pc = "returned"
    /\ y_given.y_train.val = SixLabels
    /\ num_labels = Some(6)
    /\ y_given.y_val.val = <<2>>
    /\ data_split.y_val.val = <<<<0, 0, 1, 0, 0, 0>>>>

\* A validation or test partition holding a label above width - 1.
Overflows(yk) ==
    /\ ~y_given[yk].none
    /\ ~num_labels.none
    /\ \E i \in 1..Len(y_given[yk].val) : y_given[yk].val[i] > num_labels.val - 1

----------------------------------------------------------------------------
(* format_dataset(processed_data, processed_data_vectors): one step per    *)
(* iteration of its for loop, then the return.                             *)

\* The reviews a preprocessed dataset is made of: text_transformed, text, stars.
Reviews ==
    {[text_transformed |-> tt, text |-> tx, stars |-> st] :
        tt \in {<<"tok">>, <<>>}, tx \in {Ha, Bad}, st \in {0, 5}}

\* The rows of the vector store.
Vectors == {"v1", "v2"}

\* The dict json.load returns for the reviews rs: parallel lists.
DatasetOf(rs) ==
    [text_transformed |-> [i \in 1..Len(rs) |-> rs[i].text_transformed],
     text |-> [i \in 1..Len(rs) |-> rs[i].text],
     stars |-> [i \in 1..Len(rs) |-> rs[i].stars]]

InitFormat ==
    /\ \E n \in 0..MaxRecords :
        /\ \E rs \in SeqsOfLen(Reviews, n) : fd_processed_data = DatasetOf(rs)
        /\ fd_vectors \in SeqsUpTo(Vectors, n + 1)
    /\ fd_i = 0
    /\ fd_x = <<>>
    /\ fd_x_fulltext = <<>>
    /\ fd_x_vectors = <<>>
    /\ fd_y = <<>>
    /\ fd_pc = "loop"
    /\ fd_error = "none"
    /\ rr_idle /\ pm_idle /\ sp_idle /\ kt_idle /\ cd_idle

\* Line 370 with the last index left out: range(len(...) - 1).
FormatRangeShort(processed_data) == Len(processed_data.text_transformed) - 1

\* Line 370: the number of iterations, len(processed_data['text_transformed']).
FormatRange(processed_data) == Len(processed_data.text_transformed)

\* Lines 371-374 for i = fd_i (0-based; the lists here are 1-based).  x is
\* appended to before the vector store is indexed, so an index past the end
\* of the store raises IndexError with x already longer.
FdIteration ==
    /\ fd_pc = "loop"
    /\ fd_i < FormatRange(fd_processed_data)
    /\ fd_x' = Append(fd_x, fd_processed_data.text_transformed[fd_i + 1])
    /\ IF fd_i + 1 > Len(fd_vectors)
       THEN /\ fd_pc' = "raised"
            /\ fd_error' = "IndexError"
            /\ UNCHANGED <<fd_x_vectors, fd_x_fulltext, fd_y, fd_i>>
       ELSE /\ fd_x_vectors' = Append(fd_x_vectors, fd_vectors[fd_i + 1])
            /\ fd_x_fulltext' = Append(fd_x_fulltext, fd_processed_data.text[fd_i + 1])
            /\ fd_y' = Append(fd_y, fd_processed_data.stars[fd_i + 1])
            /\ fd_i' = fd_i + 1
            /\ UNCHANGED <<fd_pc, fd_error>>
    /\ UNCHANGED <<fd_processed_data, fd_vectors, rr_vars, pm_vars, sp_vars, kt_vars,
                   cd_vars>>

\* Line 376: return x, x_fulltext, x_vectors, y
FdReturn ==
    /\ fd_pc = "loop"
    /\ fd_i >= FormatRange(fd_processed_data)
    /\ fd_pc' = "returned"
    /\ UNCHANGED <<fd_processed_data, fd_vectors, fd_i, fd_x, fd_x_fulltext,
                   fd_x_vectors, fd_y, fd_error, rr_vars, pm_vars, sp_vars, kt_vars,
                   cd_vars>>

NextFormat ==
    \/ FdIteration
    \/ FdReturn

SpecFormat == InitFormat /\ [][NextFormat]_vars

----------------------------------------------------------------------------
(* Properties of format_dataset, checked under SpecFormat.                 *)

\* The length L of the preprocessed dataset.
DatasetLen == Len(fd_processed_data.text)

\* out is the first n entries of q, entry for entry.
IsFirstEntries(out, q, n) ==
    /\ Len(out) = n
    /\ \A i \in 1..n : out[i] = q[i]

\* C11: given a dataset of length L and at least L vectors, format_dataset
\* returns (tokens, raw text, vectors, labels), each of length exactly L with
\* entry i the entry i of its input: nothing skipped, duplicated or reordered,
\* the vectors from index L on ignored.
C11_FormatKeepsEveryEntry ==
    Len(fd_vectors) >= DatasetLen =>
        /\ fd_error = "none"
        /\ fd_pc # "raised"
        /\ fd_pc = "returned" =>
            /\ IsFirstEntries(fd_x, fd_processed_data.text_transformed, DatasetLen)
            /\ IsFirstEntries(fd_x_fulltext, fd_processed_data.text, DatasetLen)
            /\ IsFirstEntries(fd_x_vectors, fd_vectors, DatasetLen)
            /\ IsFirstEntries(fd_y, fd_processed_data.stars, DatasetLen)

\* C11 witness: a dataset of two different reviews and a store of three
\* vectors came back as four lists of two entries, the third vector left out.
C11_Witness ==
    /\ fd_pc = "returned"
    /\ DatasetLen = 2
    /\ fd_vectors = <<"v1", "v2", "v1">>
    /\ fd_processed_data.stars = <<0, 5>>
    /\ fd_y = <<0, 5>>
    /\ fd_x_vectors = <<"v1", "v2">>

----------------------------------------------------------------------------
(* create_preprocessed_dataset(path_to_tsv): movie_data is the csv_array   *)
(* read_csv returned; the loop of preprocess_movie_data runs with          *)
(* enable_langid=True, then the records are unzipped into the dict.        *)

InitCreate ==
    /\ movie_data \in UNION {RowLists(n) : n \in 0..MaxRows} \cup {EndToEndRows}
    /\ enable_langid = TRUE
    /\ row_idx = 0
    /\ preprocessed_data = <<>>
    /\ pm_pc = "loop"
    /\ pm_error = "none"
    /\ kept_from = <<>>
    /\ tokenized = <<>>
    /\ cd_pc = "preprocess"
    /\ cd_error = "none"
    /\ cd_preprocessed = <<>>
    /\ rr_idle /\ sp_idle /\ kt_idle /\ fd_idle

\* zip(*records)[j]: the tuple of the j-th entries of the records.
Column(records, j) == [k \in 1..Len(records) |-> records[k][j]]

\* Lines 295-302 for a non-empty list of records [url, stars, text, tokens]:
\* url, stars, text, tokens = zip(*movie_data) and the dict of the four.
Unzip(records) ==
    [url |-> Column(records, 1),
     text_transformed |-> Column(records, 4),
     text |-> Column(records, 3),
     stars |-> Column(records, 2)]

\* Line 293: an exception of preprocess_movie_data leaves
\* create_preprocessed_dataset too.
CdPropagate ==
    /\ cd_pc = "preprocess"
    /\ pm_pc = "raised"
    /\ cd_pc' = "raised"
    /\ cd_error' = pm_error
    /\ UNCHANGED <<cd_preprocessed, rr_vars, pm_vars, sp_vars, kt_vars, fd_vars>>

\* Lines 295-307.  zip(*[]) yields nothing, so with no record the unpacking
\* into four names raises ValueError; else the dict is built, dumped to the
\* JSON file and returned.
CdBuild ==
    /\ cd_pc = "preprocess"
    /\ pm_pc = "returned"
    /\ IF preprocessed_data = <<>>
       THEN /\ cd_pc' = "raised"
            /\ cd_error' = "ValueError"
            /\ UNCHANGED cd_preprocessed
       ELSE /\ cd_preprocessed' = Unzip(preprocessed_data)
            /\ cd_pc' = "returned"
            /\ UNCHANGED cd_error
    /\ UNCHANGED <<rr_vars, pm_vars, sp_vars, kt_vars, fd_vars>>

NextCreate ==
    \/ SkipShortRow
    \/ SkipBlankRow
    \/ SkipForeignRow
    \/ KeepRow
    \/ ReturnPreprocessed
    \/ CdPropagate
    \/ CdBuild

SpecCreate == InitCreate /\ [][NextCreate]_vars

----------------------------------------------------------------------------
(* Properties of create_preprocessed_dataset, checked under SpecCreate.    *)

\* The rows that survived normalisation, in input order.
Survivors == [k \in 1..Len(kept_from) |-> movie_data[kept_from[k]]]

\* C12: once the rows are normalised, the dataset is built with url, text,
\* text_transformed and stars of one length, the number of surviving rows,
\* zero included, position i of the four describing the i-th surviving row.
C12_ParallelSequences ==
    (pm_pc = "returned" /\ cd_pc # "preprocess") =>
        /\ cd_pc = "returned"
        /\ \A key \in {"url", "text", "text_transformed", "stars"} :
             Len(cd_preprocessed[key]) = Len(Survivors)
        /\ \A i \in 1..Len(Survivors) :
             /\ cd_preprocessed.url[i] = Survivors[i][1]
             /\ cd_preprocessed.stars[i] = preprocessed_data[i][2]
             /\ cd_preprocessed.text[i] = preprocessed_data[i][3]
             /\ cd_preprocessed.text_transformed[i] = preprocessed_data[i][4]

====
